---- MODULE Spec2Model ----
(***************************************************************************)
(* Model of the inference session of commitgen (src/commitgen.cpp):        *)
(* the asynchronous load task of the constructor, is_ready, generate       *)
(* called from several threads, and the destructor; and of the server's    *)
(* request loop and the client's send_request (src/README.md).             *)
(*                                                                         *)
(* Text is a sequence of one-character strings.  The inference library     *)
(* (llama.h) is outside the repository; it is modelled as a deterministic  *)
(* function of the context memory and of the sampler state, given by the   *)
(* record lm that Init chooses.                                            *)
(***************************************************************************)
EXTENDS Integers, Sequences, FiniteSets, TLC

VARIABLES
    model,      \* impl->model : "null" | "live" | "freed"
    ctx,        \* impl->ctx   : "null" | "live" | "freed"
    vocab,      \* impl->vocab : "null" | "live"
    ready,      \* impl->ready (std::atomic<bool>)
    mtx,        \* impl->mtx : 0 when free, else the thread that holds it
    mem,        \* sequence memory (KV cache) of the context: tokens decoded
    loadpc,     \* position of the load task started by the constructor
    dpc,        \* position of the destructor
    pc,         \* pc[t] : position of thread t in generate
    diff,       \* diff[t] : argument of the current call of t
    tokens,     \* tokens[t] : the tokenized prompt
    sampler,    \* sampler[t] : NoSampler, or the number of draws made
    result,     \* result[t] : the local std::string result
    cn,         \* cn[t] : consecutive_newlines
    i,          \* i[t] : loop counter
    ret,        \* ret[t] : value returned by the last call of t
    how,        \* how[t] : the exit path taken by the last call of t
    lm,         \* behaviour of the model file: what the library computes
    ncalls,     \* number of generate calls started
    polled,     \* last value returned by is_ready() to a polling caller
    raw,        \* raw[t] : all text appended to result in this call
    outs,       \* outs[d] : the results returned for diff d by ready calls
    early,      \* TRUE when destruction began while the load task ran
    frags,      \* frags[t] : the pieces appended to result in this call
    srv,        \* position of the server's request loop
    request,    \* the server's local request
    commit_msg, \* the server's local commit_msg
    served,     \* number of requests the server has passed to generate
    sent,       \* number of requests the client has sent
    reqpipe,    \* content of the request pipe: <<>> or <<request>>
    resppipe,   \* content of the response pipe: <<>> or <<response>>
    cli,        \* position of the client in send_request
    answer,     \* value returned by the client's last send_request
    sp,         \* sp[p] : position of server process p (a --start command)
    gtask,      \* gtask[p] : load task of the generator of process p
    gready,     \* gready[p] : what generator->is_ready() returns in p
    gcalls,     \* gcalls[p] : generate calls made by the request loop of p
    created,    \* created[p] : the files process p has created
    pidfile,    \* PID_FILE : 0 when absent, else the pid written in it
    fifos,      \* the two pipes : 0 when absent, else the process that made them
    statusfile, \* STATUS_FILE : 0 when absent, else the process that wrote it
    cpc,        \* position of the client in its each-file mode
    fidx,       \* the loop index i of the client's main
    auto_accept,\* opts.auto_accept
    cresult,    \* the CommitResult of the current interactive_commit
    cmsg,       \* the local commit_msg of interactive_commit
    committed,  \* the counter committed of the client's main
    skipped,    \* the counter skipped of the client's main
    results,    \* the vector results of the client's main
    commits,    \* the git commit commands run so far: <<file, message>>
    files,      \* the vector files of the client's main
    outcomes    \* how each interactive_commit call so far has ended

\* the state of the server's request loop, of the pipes and of the client
tvars == <<srv, request, commit_msg, served, sent, reqpipe, resppipe, cli,
           answer>>

\* the state of the server processes and of the files they share
pvars == <<sp, gtask, gready, gcalls, created, pidfile, fifos, statusfile>>

\* the state of the client's each-file mode
cvars == <<cpc, fidx, auto_accept, cresult, cmsg, committed, skipped, results,
           commits, files, outcomes>>

xvars == <<pvars, cvars>>

vars == <<model, ctx, vocab, ready, mtx, mem, loadpc, dpc, pc, diff, tokens,
          sampler, result, cn, i, ret, how, lm, ncalls, polled, raw, outs,
          early, frags, tvars, xvars>>

-----------------------------------------------------------------------------
(* Bounds of the model *)

NThreads == 2       \* threads that call generate
MaxCalls == 2       \* generate calls started in one behaviour (Spec)
MaxSeqCalls == 3    \* sequential calls in SpecSeq
MaxScript == 3      \* longest token stream of the models of SpecGen
MaxText == 5        \* longest token stream of the models of SpecText
MaxRequests == 2    \* requests the client sends in SpecPipe
NServers == 2       \* server processes started with --start (SpecStart)
NFiles == 2         \* changed files of the client's each-file mode

Threads == 1..NThreads
Servers == 1..NServers

-----------------------------------------------------------------------------
(* Program constants *)

n_ctx == 4096           \* ctx_params.n_ctx
MaxDiff == 4000         \* diff.substr(0, 4000)
MaxIter == 512          \* for (int i = 0; i < 512; i++)
MaxNewlines == 3        \* consecutive_newlines >= 3
npos == 0 - 1           \* std::string::npos
NoSampler == 0 - 1      \* no sampler chain exists

stop_str == <<"<", "|", "i", "m", "_", "e", "n", "d", "|", ">">>

-----------------------------------------------------------------------------
(* std::string operations used by generate *)

\* s.substr(pos, n), positions counted from 0
Substr(s, pos, n) ==
    SubSeq(s, pos + 1, IF pos + n > Len(s) THEN Len(s) ELSE pos + n)

\* TRUE when pat occurs in s at position p (counted from 0)
OccursAt(s, pat, p) ==
    /\ p + Len(pat) <= Len(s)
    /\ \A k \in 1..Len(pat) : s[p + k] = pat[k]

\* the least element of a non-empty set of integers
Least(S) == CHOOSE p \in S : \A q \in S : p <= q

\* s.find(pat, p): position of the first occurrence at or after p, or npos
FindFrom(s, pat, p) ==
    LET P == {q \in p..(Len(s) - Len(pat)) : OccursAt(s, pat, q)}
    IN  IF P = {} THEN npos ELSE Least(P)

\* s.find(pat): position of the first occurrence, or npos
Find(s, pat) == FindFrom(s, pat, 0)

\* piece.find_first_not_of(" \t") != npos
HasNonBlank(s) == \E k \in 1..Len(s) : s[k] \notin {" ", "\t"}

\* a trim that removes trailing spaces only
TrimRightSpacesOnly(s) ==
    LET K == {k \in 1..Len(s) : s[k] # " "}
    IN  IF K = {} THEN <<>> ELSE SubSeq(s, 1, 0 - Least({0 - k : k \in K}))

\* while (!result.empty() && (back == '\n' || back == ' ')) pop_back():
\* the text up to its last character that is neither a newline nor a space
TrimRight(s) ==
    LET K == {k \in 1..Len(s) : s[k] \notin {"\n", " "}}
    IN  IF K = {} THEN <<>> ELSE SubSeq(s, 1, 0 - Least({0 - k : k \in K}))

\* erase(0, 1) when the first character is a quote
StripLeadQuote(s) ==
    IF s # <<>> /\ s[1] = "\"" THEN SubSeq(s, 2, Len(s)) ELSE s

\* pop_back() when the last character is a quote
StripTrailQuote(s) ==
    IF s # <<>> /\ s[Len(s)] = "\"" THEN SubSeq(s, 1, Len(s) - 1) ELSE s

\* a clean-up that trims before it strips the quotes
PostProcessTrimFirst(s) == StripTrailQuote(StripLeadQuote(TrimRight(s)))

\* the clean-up of the result at the end of generate
PostProcess(s) == TrimRight(StripTrailQuote(StripLeadQuote(s)))

\* build_prompt: the fixed header, the diff, the fixed trailer.  The fixed
\* template texts are the single symbols "H" and "T".
build_prompt(d) == <<"H">> \o d \o <<"T">>

\* a prompt built from the whole diff
GenPromptWhole(d) == build_prompt(d)

\* input = diff.substr(0, 4000); prompt = build_prompt(input)
GenPrompt(d) == build_prompt(Substr(d, 0, MaxDiff))

-----------------------------------------------------------------------------
(* The inference library as generate uses it *)

\* The diffs callers pass.  "#" stands for text the vocabulary cannot
\* tokenize.
Diffs == {<<"a">>, <<"a", "b">>, <<"#">>}

\* a diff of n characters: "a" up to the limit of generate, c after it
LongDiff(n, c) == [k \in 1..n |-> IF k <= MaxDiff THEN "a" ELSE c]

\* diffs around the limit and beyond it, and two short ones
PromptDiffs ==
    {LongDiff(n, c) : n \in {MaxDiff - 1, MaxDiff, MaxDiff + 1, MaxDiff + 1000},
                      c \in {"b", "c"}}
    \cup {<<"a", "b">>, <<"c">>}

\* Tokens a model can emit
Tokens == {"OK", "NL", "Q", "SP", "M1", "M2", "EOG", "BAD"}

\* a vocabulary without end-of-generation tokens
is_eog_never(tok) == FALSE

\* llama_vocab_is_eog(vocab, tok)
is_eog(tok) == tok = "EOG"

\* the text of a token.  M1 and M2 together spell the stop marker, followed
\* by one more character.
Piece(tok) ==
    CASE tok = "OK" -> <<"o", "k">>
      [] tok = "NL" -> <<"\n">>
      [] tok = "Q"  -> <<"\"">>
      [] tok = "SP" -> <<" ">>
      [] tok = "M1" -> <<"<", "|", "i", "m", "_">>
      [] tok = "M2" -> <<"e", "n", "d", "|", ">", "x">>
      [] tok = "EOG" -> <<"<", "/", "s", ">">>
      [] OTHER      -> <<>>

\* llama_token_to_piece(vocab, tok, buf, sizeof(buf), 0, true): the length
\* of the piece, negative when the conversion fails
token_to_piece(tok) == IF tok = "BAD" THEN 0 - 1 ELSE Len(Piece(tok))

\* llama_tokenize(vocab, prompt, ...): the number of tokens, negative on
\* failure.  The tokenizer is character-level.
llama_tokenize(prompt) ==
    IF \E k \in 1..Len(prompt) : prompt[k] = "#" THEN 0 - 1 ELSE Len(prompt)

\* llama_decode(ctx, batch) == 0: a batch fits when the memory has room
DecodeOk(m, batch) ==
    /\ Len(m) + Len(batch) <= n_ctx
    /\ Len(m) + Len(batch) <= lm.kv

\* llama_sampler_sample(sampler, ctx, -1): the logits depend on the memory,
\* the seeded draw on the number of draws the sampler has made
llama_sampler_sample(m, draws) ==
    IF draws \in lm.bad THEN "BAD"
    ELSE LET k == Len(m) - Len(build_prompt(<<>>))
         IN  IF k \in 1..Len(lm.script) THEN lm.script[k] ELSE lm.tail

\* what a failed llama_decode of a batch may leave in the memory: nothing,
\* or the start of the batch
DecodeResidue(batch) == {<<>>, SubSeq(batch, 1, 1)}

\* llama_memory_seq_rm(mem, seq, p0, p1): drops positions p0 <= p < p1 of
\* the memory m (positions from 0; a negative bound is open)
llama_memory_seq_rm(m, p0, p1) ==
    LET lo == IF p0 < 0 THEN 0 ELSE IF p0 > Len(m) THEN Len(m) ELSE p0
        hi == IF p1 < 0 \/ p1 > Len(m) THEN Len(m) ELSE p1
    IN  IF lo >= hi THEN m ELSE SubSeq(m, 1, lo) \o SubSeq(m, hi + 1, Len(m))

-----------------------------------------------------------------------------
(* Families of model files *)

LM(s, b, tl, kv) == [script |-> s, bad |-> b, tail |-> tl, kv |-> kv]

\* the models of Spec: one for each way a call can end but the iteration
\* bound, which the models of SpecBound reach
SmallLMs ==
    { LM(<<"OK", "Q">>, {}, "EOG", n_ctx),
      LM(<<"M1", "M2">>, {}, "EOG", n_ctx),
      LM(<<"NL", "NL", "NL">>, {}, "EOG", n_ctx),
      LM(<<"OK", "OK">>, {}, "EOG", 3),
      LM(<<"OK">>, {0, 1}, "EOG", n_ctx) }

RECURSIVE Scripts(_)
\* all token streams of at most n convertible tokens
Scripts(n) ==
    IF n = 0 THEN {<<>>}
    ELSE LET S == Scripts(n - 1)
         IN  S \cup {Append(s, tk) : s \in S, tk \in Tokens \ {"BAD", "EOG", "SP"}}

\* the models of SpecGen: every stream up to MaxScript tokens
RichLMs ==
    {LM(s, b, "EOG", kv) : s \in Scripts(MaxScript), b \in {{}, {1}}, kv \in {4, n_ctx}}

\* the models of SpecSeq
SeqLMs ==
    SmallLMs \cup {LM(s, {}, "EOG", n_ctx) : s \in Scripts(2)}

RECURSIVE ScriptsOver(_, _)
\* all token streams of at most n tokens of the set T
ScriptsOver(n, T) ==
    IF n = 0 THEN {<<>>}
    ELSE LET S == ScriptsOver(n - 1, T)
         IN  S \cup {Append(s, tk) : s \in S, tk \in T}

\* the models of SpecBound: streams that never end by themselves, streams
\* of tokens that have no text, and streams that end
BoundLMs ==
    { LM(<<>>, {}, "OK", n_ctx),
      LM(<<>>, {0, 2}, "OK", n_ctx),
      LM(<<>>, {}, "BAD", n_ctx),
      LM(<<"OK", "NL">>, {}, "SP", n_ctx),
      LM(<<"OK">>, {}, "EOG", n_ctx) }

\* the models of SpecPipe: one that answers a diff with text (the memory is
\* full after three generated tokens), one that ends at once, one that
\* emits newlines only
PipeLMs ==
    { LM(<<>>, {}, "OK", Len(build_prompt(<<>>)) + 8),
      LM(<<>>, {}, "EOG", n_ctx),
      LM(<<>>, {}, "NL", n_ctx) }

\* the models of SpecText: every stream of words, newlines, spaces and quotes
\* up to MaxText tokens
TextLMs ==
    {LM(s, {}, "EOG", n_ctx) : s \in ScriptsOver(MaxText, {"OK", "NL", "SP", "Q"})}

-----------------------------------------------------------------------------
(* State after construction: the constructor has started the load task *)

\* the server waits for a request, the pipes are empty, no client has sent
InitPipes ==
    /\ srv = "poll"
    /\ request = <<>>
    /\ commit_msg = <<>>
    /\ served = 0
    /\ sent = 0
    /\ reqpipe = <<>>
    /\ resppipe = <<>>
    /\ cli = "idle"
    /\ answer = <<>>

\* no server process has been started
ServersOff ==
    /\ sp = [p \in Servers |-> "none"]
    /\ gtask = [p \in Servers |-> "none"]
    /\ gready = [p \in Servers |-> FALSE]
    /\ gcalls = [p \in Servers |-> 0]
    /\ created = [p \in Servers |-> {}]
    /\ pidfile = 0
    /\ fifos = 0
    /\ statusfile = 0

\* the client is not in its each-file mode
ClientOff ==
    /\ cpc = "off"
    /\ fidx = 0
    /\ auto_accept = FALSE
    /\ cresult = [file |-> "", accepted |-> FALSE, committed |-> FALSE]
    /\ cmsg = <<>>
    /\ committed = 0
    /\ skipped = 0
    /\ results = <<>>
    /\ commits = <<>>
    /\ files = <<>>
    /\ outcomes = <<>>

InitLocals ==
    /\ pc = [t \in Threads |-> "idle"]
    /\ diff = [t \in Threads |-> <<>>]
    /\ tokens = [t \in Threads |-> <<>>]
    /\ sampler = [t \in Threads |-> NoSampler]
    /\ result = [t \in Threads |-> <<>>]
    /\ cn = [t \in Threads |-> 0]
    /\ i = [t \in Threads |-> 0]
    /\ ret = [t \in Threads |-> <<>>]
    /\ how = [t \in Threads |-> "none"]
    /\ raw = [t \in Threads |-> <<>>]
    /\ frags = [t \in Threads |-> <<>>]
    /\ outs = [d \in Diffs |-> <<>>]
    /\ ncalls = 0
    /\ polled = FALSE
    /\ early = FALSE
    /\ mtx = 0
    /\ mem = <<>>
    /\ dpc = "none"
    /\ InitPipes

Init ==
    /\ model = "null"
    /\ ctx = "null"
    /\ vocab = "null"
    /\ ready = FALSE
    /\ loadpc = "load_model"
    /\ lm \in SmallLMs
    /\ InitLocals
    /\ ServersOff
    /\ ClientOff

\* the process runs: no thread has crashed
Running == \A t \in Threads : pc[t] # "crash"

-----------------------------------------------------------------------------
(* The load task of the constructor *)

\* the load task without the return on a null model
AfterModelLoadNoReturn(m) == "init_ctx"

\* if (!impl->model) return;
AfterModelLoad(m) == IF m = "null" THEN "done" ELSE "init_ctx"

\* impl->model = llama_model_load_from_file(...)
LoadModel ==
    /\ Running
    /\ loadpc = "load_model"
    /\ \E m \in {"null", "live"} :
         /\ model' = m
         /\ loadpc' = AfterModelLoad(m)
    /\ UNCHANGED <<ctx, vocab, ready, mtx, mem, dpc, pc, diff, tokens, sampler,
                   result, cn, i, ret, how, lm, ncalls, polled, raw, outs, early,
                   frags, tvars, xvars>>

\* impl->ctx = llama_init_from_model(impl->model, ctx_params): the library
\* returns a null context when it cannot create one
InitCtx ==
    /\ Running
    /\ loadpc = "init_ctx"
    /\ \E c \in (IF model = "live" THEN {"null", "live"} ELSE {"null"}) : ctx' = c
    /\ loadpc' = "get_vocab"
    /\ UNCHANGED <<model, vocab, ready, mtx, mem, dpc, pc, diff, tokens, sampler,
                   result, cn, i, ret, how, lm, ncalls, polled, raw, outs, early,
                   frags, tvars, xvars>>

\* impl->vocab = llama_model_get_vocab(impl->model)
GetVocab ==
    /\ Running
    /\ loadpc = "get_vocab"
    /\ vocab' = IF model = "live" THEN "live" ELSE "null"
    /\ loadpc' = "set_ready"
    /\ UNCHANGED <<model, ctx, ready, mtx, mem, dpc, pc, diff, tokens, sampler,
                   result, cn, i, ret, how, lm, ncalls, polled, raw, outs, early,
                   frags, tvars, xvars>>

\* impl->ready = true
SetReady ==
    /\ Running
    /\ loadpc = "set_ready"
    /\ ready' = TRUE
    /\ loadpc' = "done"
    /\ UNCHANGED <<model, ctx, vocab, mtx, mem, dpc, pc, diff, tokens, sampler,
                   result, cn, i, ret, how, lm, ncalls, polled, raw, outs, early,
                   frags, tvars, xvars>>

\* bool is_ready(): a caller polls the flag
IsReady ==
    /\ Running
    /\ dpc = "none"
    /\ polled' = ready
    /\ UNCHANGED <<model, ctx, vocab, ready, mtx, mem, loadpc, dpc, pc, diff,
                   tokens, sampler, result, cn, i, ret, how, lm, ncalls, raw,
                   outs, early,
                   frags, tvars, xvars>>

-----------------------------------------------------------------------------
(* generate, called by thread t *)

\* thread t is at position p of generate and can take a step
At(t, p) == Running /\ dpc = "none" /\ pc[t] = p

\* generate without the readiness check
EntryPointNoCheck(r) == "lock"

\* if (!is_ready()) return "";
EntryPoint(r) == IF ~r THEN "ret" ELSE "lock"

\* generate(d) is called and reads the readiness flag
Start(t, d, limit) ==
    /\ Running
    /\ dpc = "none"
    /\ pc[t] \in {"idle", "ret"}
    /\ ncalls < limit
    /\ ncalls' = ncalls + 1
    /\ diff' = [diff EXCEPT ![t] = d]
    /\ raw' = [raw EXCEPT ![t] = <<>>]
    /\ frags' = [frags EXCEPT ![t] = <<>>]
    /\ pc' = [pc EXCEPT ![t] = EntryPoint(ready)]
    /\ IF EntryPoint(ready) = "ret"
       THEN /\ ret' = [ret EXCEPT ![t] = <<>>]
            /\ how' = [how EXCEPT ![t] = "notready"]
       ELSE UNCHANGED <<ret, how>>
    /\ UNCHANGED <<model, ctx, vocab, ready, mtx, mem, loadpc, dpc, tokens,
                   sampler, result, cn, i, lm, polled, outs, early,
                   tvars, xvars>>

\* a lock that never blocks
CanLockAlways(m) == TRUE

\* std::mutex::lock succeeds when the mutex is free
CanLock(m) == m = 0

\* std::lock_guard<std::mutex> lock(impl->mtx)
Lock(t) ==
    /\ At(t, "lock")
    /\ CanLock(mtx)
    /\ mtx' = t
    /\ pc' = [pc EXCEPT ![t] = "clear"]
    /\ UNCHANGED <<model, ctx, vocab, ready, mem, loadpc, dpc, diff, tokens,
                   sampler, result, cn, i, ret, how, lm, ncalls, polled, raw,
                   outs, early,
                   frags, tvars, xvars>>

\* generate without the clear of the KV cache
ClearNothing(m) == m

\* a clear of the first position only
ClearFirstOnly(m) == llama_memory_seq_rm(m, 0, 1)

\* llama_memory_seq_rm(mem, 0, 0, -1)
ClearMemory(m) == llama_memory_seq_rm(m, 0, 0 - 1)

\* a clear that replaces the context by a new one
ClearReplacesContext(t) ==
    /\ At(t, "clear")
    /\ IF ctx = "live"
       THEN /\ mem' = ClearMemory(mem)
            /\ ctx' = "null"
            /\ pc' = [pc EXCEPT ![t] = "tokenize"]
       ELSE /\ mem' = mem
            /\ ctx' = ctx
            /\ pc' = [pc EXCEPT ![t] = "crash"]
    /\ UNCHANGED <<model, vocab, ready, mtx, loadpc, dpc, diff, tokens,
                   sampler, result, cn, i, ret, how, lm, ncalls, polled, raw,
                   outs, early,
                   frags, tvars, xvars>>

\* llama_get_memory(impl->ctx) and the clear of the KV cache.  With a null
\* context the library dereferences a null pointer and the process dies.
Clear(t) ==
    /\ At(t, "clear")
    /\ IF ctx = "live"
       THEN /\ mem' = ClearMemory(mem)
            /\ pc' = [pc EXCEPT ![t] = "tokenize"]
       ELSE /\ mem' = mem
            /\ pc' = [pc EXCEPT ![t] = "crash"]
    /\ UNCHANGED <<model, ctx, vocab, ready, mtx, loadpc, dpc, diff, tokens,
                   sampler, result, cn, i, ret, how, lm, ncalls, polled, raw,
                   outs, early,
                   frags, tvars, xvars>>

\* a manual unlock that is missing on the tokenization failure path
UnlockLeak(h) == IF h = "tokfail" THEN mtx ELSE 0

\* the mutex after a return statement: the lock_guard releases it
Unlock(h) == 0

\* a return statement after the lock was taken: the value v is returned on
\* exit path h, the locals are destroyed and the lock_guard unlocks
ReturnLocked(t, v, h) ==
    /\ pc' = [pc EXCEPT ![t] = "ret"]
    /\ ret' = [ret EXCEPT ![t] = v]
    /\ how' = [how EXCEPT ![t] = h]
    /\ mtx' = Unlock(h)
    /\ outs' = [outs EXCEPT ![diff[t]] = Append(@, v)]
    /\ tokens' = [tokens EXCEPT ![t] = <<>>]
    /\ result' = [result EXCEPT ![t] = <<>>]
    /\ cn' = [cn EXCEPT ![t] = 0]
    /\ i' = [i EXCEPT ![t] = 0]

\* a tokenization whose failure path leaves a sampler behind
TokenizeLeavesSampler(t) ==
    /\ At(t, "tokenize")
    /\ LET prompt == GenPrompt(diff[t])
           n_tokens == llama_tokenize(prompt)
       IN  IF n_tokens < 0
           THEN /\ ReturnLocked(t, <<>>, "tokfail")
                /\ sampler' = [sampler EXCEPT ![t] = 0]
           ELSE /\ tokens' = [tokens EXCEPT ![t] = SubSeq(prompt, 1, n_tokens)]
                /\ pc' = [pc EXCEPT ![t] = "decode"]
                /\ UNCHANGED <<ret, how, mtx, outs, result, cn, i, sampler>>
    /\ UNCHANGED <<model, ctx, vocab, ready, mem, loadpc, dpc, diff,
                   lm, ncalls, polled, raw, early,
                   frags, tvars, xvars>>

\* input = diff.substr(0, 4000); prompt = build_prompt(input);
\* n_tokens = llama_tokenize(...); if (n_tokens < 0) return "";
Tokenize(t) ==
    /\ At(t, "tokenize")
    /\ LET prompt == GenPrompt(diff[t])
           n_tokens == llama_tokenize(prompt)
       IN  IF n_tokens < 0
           THEN ReturnLocked(t, <<>>, "tokfail")
           ELSE /\ tokens' = [tokens EXCEPT ![t] = SubSeq(prompt, 1, n_tokens)]
                /\ pc' = [pc EXCEPT ![t] = "decode"]
                /\ UNCHANGED <<ret, how, mtx, outs, result, cn, i>>
    /\ UNCHANGED <<model, ctx, vocab, ready, mem, loadpc, dpc, diff, sampler,
                   lm, ncalls, polled, raw, early,
                   frags, tvars, xvars>>

\* a failed prompt decode that marks the session as not ready
DecodePromptResetsReady(t) ==
    /\ At(t, "decode")
    /\ IF ~DecodeOk(mem, tokens[t])
       THEN /\ ReturnLocked(t, <<>>, "decfail")
            /\ \E r \in DecodeResidue(tokens[t]) : mem' = mem \o r
            /\ ready' = FALSE
       ELSE /\ mem' = mem \o tokens[t]
            /\ pc' = [pc EXCEPT ![t] = "sampler"]
            /\ UNCHANGED <<ready, ret, how, mtx, outs, tokens, result, cn, i>>
    /\ UNCHANGED <<model, ctx, vocab, loadpc, dpc, diff, sampler, lm,
                   ncalls, polled, raw, early,
                   frags, tvars, xvars>>

\* a prompt decode whose failure is ignored
DecodePromptIgnoresFailure(t) ==
    /\ At(t, "decode")
    /\ mem' = IF DecodeOk(mem, tokens[t]) THEN mem \o tokens[t] ELSE mem
    /\ pc' = [pc EXCEPT ![t] = "sampler"]
    /\ UNCHANGED <<ret, how, mtx, outs, tokens, result, cn, i>>
    /\ UNCHANGED <<model, ctx, vocab, ready, loadpc, dpc, diff, sampler, lm,
                   ncalls, polled, raw, early,
                   frags, tvars, xvars>>

\* if (llama_decode(impl->ctx, batch) != 0) return "";
DecodePrompt(t) ==
    /\ At(t, "decode")
    /\ IF ~DecodeOk(mem, tokens[t])
       THEN /\ ReturnLocked(t, <<>>, "decfail")
            /\ \E r \in DecodeResidue(tokens[t]) : mem' = mem \o r
       ELSE /\ mem' = mem \o tokens[t]
            /\ pc' = [pc EXCEPT ![t] = "sampler"]
            /\ UNCHANGED <<ret, how, mtx, outs, tokens, result, cn, i>>
    /\ UNCHANGED <<model, ctx, vocab, ready, loadpc, dpc, diff, sampler, lm,
                   ncalls, polled, raw, early,
                   frags, tvars, xvars>>

\* the sampler chain is created; result and consecutive_newlines start empty
InitSampler(t) ==
    /\ At(t, "sampler")
    /\ sampler' = [sampler EXCEPT ![t] = 0]
    /\ result' = [result EXCEPT ![t] = <<>>]
    /\ cn' = [cn EXCEPT ![t] = 0]
    /\ i' = [i EXCEPT ![t] = 0]
    /\ pc' = [pc EXCEPT ![t] = "loop"]
    /\ UNCHANGED <<model, ctx, vocab, ready, mtx, mem, loadpc, dpc, diff,
                   tokens, ret, how, lm, ncalls, polled, raw, outs, early,
                   frags, tvars, xvars>>

\* the stop marker searched in the last piece only
StopInPiece(res, piece) == Find(piece, stop_str) # npos

\* result.find(stop_str) != std::string::npos, after piece was appended
StopFound(res, piece) == Find(res, stop_str) # npos

\* a newline counter that never counts
NewlineCountOff(c, piece) == 0

\* the newline counter after a piece that did not complete the stop marker
NewlineCount(c, piece) ==
    IF piece = <<"\n">> THEN c + 1
    ELSE IF HasNonBlank(piece) THEN 0
    ELSE c

\* break: the loop is left on exit path h
Break(t, res, rw, fr, c, s, m, h) ==
    /\ pc' = [pc EXCEPT ![t] = "cleanup"]
    /\ how' = [how EXCEPT ![t] = h]
    /\ result' = [result EXCEPT ![t] = res]
    /\ raw' = [raw EXCEPT ![t] = rw]
    /\ frags' = [frags EXCEPT ![t] = fr]
    /\ cn' = [cn EXCEPT ![t] = c]
    /\ sampler' = [sampler EXCEPT ![t] = s]
    /\ mem' = m
    /\ i' = i

\* a loop whose counter does not advance
ContinueNoIncrement(t, res, rw, fr, c, s, m) ==
    /\ pc' = pc
    /\ how' = how
    /\ result' = [result EXCEPT ![t] = res]
    /\ raw' = [raw EXCEPT ![t] = rw]
    /\ frags' = [frags EXCEPT ![t] = fr]
    /\ cn' = [cn EXCEPT ![t] = c]
    /\ sampler' = [sampler EXCEPT ![t] = s]
    /\ mem' = m
    /\ i' = i

\* the end of the loop body or continue: i++ and the next iteration
Continue(t, res, rw, fr, c, s, m) ==
    /\ pc' = pc
    /\ how' = how
    /\ result' = [result EXCEPT ![t] = res]
    /\ raw' = [raw EXCEPT ![t] = rw]
    /\ frags' = [frags EXCEPT ![t] = fr]
    /\ cn' = [cn EXCEPT ![t] = c]
    /\ sampler' = [sampler EXCEPT ![t] = s]
    /\ mem' = m
    /\ i' = [i EXCEPT ![t] = i[t] + 1]

\* a loop that ends at the first token that has no text
LoopStepBadIsFatal(t) ==
    /\ At(t, "loop")
    /\ IF i[t] >= MaxIter
       THEN Break(t, result[t], raw[t], frags[t], cn[t], sampler[t], mem, "bound")
       ELSE
         LET new_token == llama_sampler_sample(mem, sampler[t])
             s1 == sampler[t] + 1
         IN
         IF is_eog(new_token)
         THEN Break(t, result[t], raw[t], frags[t], cn[t], s1, mem, "eog")
         ELSE IF token_to_piece(new_token) < 0
         THEN Break(t, result[t], raw[t], frags[t], cn[t], s1, mem, "eog")
         ELSE
           LET piece == Piece(new_token)
               r1 == result[t] \o piece
               rw == raw[t] \o piece
               fr == Append(frags[t], piece)
               c1 == NewlineCount(cn[t], piece)
           IN
           IF StopFound(r1, piece)
           THEN Break(t, Substr(r1, 0, Find(r1, stop_str)), rw, fr, cn[t], s1, mem, "stop")
           ELSE IF piece = <<"\n">> /\ c1 >= MaxNewlines
           THEN Break(t, r1, rw, fr, c1, s1, mem, "newlines")
           ELSE IF ~DecodeOk(mem, <<new_token>>)
           THEN Break(t, r1, rw, fr, c1, s1, mem, "midfail")
           ELSE Continue(t, r1, rw, fr, c1, s1, mem \o <<new_token>>)
    /\ UNCHANGED <<model, ctx, vocab, ready, mtx, loadpc, dpc, diff, tokens,
                   ret, lm, ncalls, polled, outs, early,
                   tvars, xvars>>

\* one test of the loop condition and one iteration of the decode loop
LoopStep(t) ==
    /\ At(t, "loop")
    /\ IF i[t] >= MaxIter
       THEN Break(t, result[t], raw[t], frags[t], cn[t], sampler[t], mem, "bound")
       ELSE
         LET new_token == llama_sampler_sample(mem, sampler[t])
             s1 == sampler[t] + 1
         IN
         IF is_eog(new_token)
         THEN Break(t, result[t], raw[t], frags[t], cn[t], s1, mem, "eog")
         ELSE IF token_to_piece(new_token) < 0
         THEN Continue(t, result[t], raw[t], frags[t], cn[t], s1, mem)
         ELSE
           LET piece == Piece(new_token)
               r1 == result[t] \o piece
               rw == raw[t] \o piece
               fr == Append(frags[t], piece)
               c1 == NewlineCount(cn[t], piece)
           IN
           IF StopFound(r1, piece)
           THEN Break(t, Substr(r1, 0, Find(r1, stop_str)), rw, fr, cn[t], s1, mem, "stop")
           ELSE IF piece = <<"\n">> /\ c1 >= MaxNewlines
           THEN Break(t, r1, rw, fr, c1, s1, mem, "newlines")
           ELSE IF ~DecodeOk(mem, <<new_token>>)
           THEN Break(t, r1, rw, fr, c1, s1, mem, "midfail")
           ELSE Continue(t, r1, rw, fr, c1, s1, mem \o <<new_token>>)
    /\ UNCHANGED <<model, ctx, vocab, ready, mtx, loadpc, dpc, diff, tokens,
                   ret, lm, ncalls, polled, outs, early,
                   tvars, xvars>>

\* a clean-up that discards the text of a call whose token decode failed
CleanupDiscardsPartial(t) ==
    /\ At(t, "cleanup")
    /\ sampler' = [sampler EXCEPT ![t] = NoSampler]
    /\ ReturnLocked(t, IF how[t] = "midfail" THEN <<>> ELSE PostProcess(result[t]), how[t])
    /\ UNCHANGED <<model, ctx, vocab, ready, mem, loadpc, dpc, diff, lm,
                   ncalls, polled, raw, early,
                   frags, tvars, xvars>>

\* a clean-up that does not free the sampler
CleanupLeaksSampler(t) ==
    /\ At(t, "cleanup")
    /\ sampler' = sampler
    /\ ReturnLocked(t, PostProcess(result[t]), how[t])
    /\ UNCHANGED <<model, ctx, vocab, ready, mem, loadpc, dpc, diff, lm,
                   ncalls, polled, raw, early,
                   frags, tvars, xvars>>

\* llama_sampler_free, the clean-up of result, and return result
Cleanup(t) ==
    /\ At(t, "cleanup")
    /\ sampler' = [sampler EXCEPT ![t] = NoSampler]
    /\ ReturnLocked(t, PostProcess(result[t]), how[t])
    /\ UNCHANGED <<model, ctx, vocab, ready, mem, loadpc, dpc, diff, lm,
                   ncalls, polled, raw, early,
                   frags, tvars, xvars>>

-----------------------------------------------------------------------------
(* The destructor.  The server's signal handler calls exit, which destroys   *)
(* the global generator whatever the interrupted thread was doing; calls in  *)
(* flight never resume, so their loop counters are dead and are not kept:    *)
(* a sampler that exists stays, its draw count is dropped.                   *)

\* ~CommitGen begins
Destruct ==
    /\ Running
    /\ dpc = "none"
    /\ dpc' = "wait"
    /\ early' = (loadpc # "done")
    /\ i' = [t \in Threads |-> 0]
    /\ sampler' = [t \in Threads |-> IF sampler[t] = NoSampler THEN NoSampler ELSE 0]
    /\ UNCHANGED <<model, ctx, vocab, ready, mtx, mem, loadpc, pc, diff, tokens,
                   result, cn, ret, how, lm, ncalls, polled, raw, outs,
                   frags, tvars, xvars>>

\* a destructor that does not wait for the load task
WaitSkipped(l) == TRUE

\* init_future.wait() returns when the load task has finished
WaitDone(l) == l = "done"

\* if (impl->init_future.valid()) impl->init_future.wait();
DtorWait ==
    /\ Running
    /\ dpc = "wait"
    /\ WaitDone(loadpc)
    /\ dpc' = "free_ctx"
    /\ UNCHANGED <<model, ctx, vocab, ready, mtx, mem, loadpc, pc, diff, tokens,
                   sampler, result, cn, i, ret, how, lm, ncalls, polled, raw,
                   outs, early,
                   frags, tvars, xvars>>

\* a destructor that does not release the context
FreeCtxSkipped ==
    /\ Running
    /\ dpc = "free_ctx"
    /\ ctx' = ctx
    /\ dpc' = "free_model"
    /\ UNCHANGED <<model, vocab, ready, mtx, mem, loadpc, pc, diff, tokens,
                   sampler, result, cn, i, ret, how, lm, ncalls, polled, raw,
                   outs, early,
                   frags, tvars, xvars>>

\* if (impl->ctx) llama_free(impl->ctx);
FreeCtx ==
    /\ Running
    /\ dpc = "free_ctx"
    /\ ctx' = IF ctx = "live" THEN "freed" ELSE ctx
    /\ dpc' = "free_model"
    /\ UNCHANGED <<model, vocab, ready, mtx, mem, loadpc, pc, diff, tokens,
                   sampler, result, cn, i, ret, how, lm, ncalls, polled, raw,
                   outs, early,
                   frags, tvars, xvars>>

\* if (impl->model) llama_model_free(impl->model);
FreeModel ==
    /\ Running
    /\ dpc = "free_model"
    /\ model' = IF model = "live" THEN "freed" ELSE model
    /\ dpc' = "done"
    /\ UNCHANGED <<ctx, vocab, ready, mtx, mem, loadpc, pc, diff, tokens,
                   sampler, result, cn, i, ret, how, lm, ncalls, polled, raw,
                   outs, early,
                   frags, tvars, xvars>>

-----------------------------------------------------------------------------
(* The server's request loop and the client's send_request (src/README.md). *)
(* The server calls generate on thread 1.  A pipe holds at most one message: *)
(* opening a pipe for writing returns when the other side has it open for    *)
(* reading, and the reader reads to the end of what the writer wrote.        *)

TestRequest == <<"-", "-", "t", "e", "s", "t">>

\* "test: verify commit generation pipeline", abbreviated
TestReply == <<"t", "e", "s", "t", ":">>

\* "ERROR: Invalid request - expected git diff content", abbreviated
InvalidReply == <<"E", "R", "R", "O", "R">>

\* the requests a client sends: the output of git diff for three changes,
\* the second with a trailing line end, the third with text that cannot be
\* tokenized; the test request; text that is no diff
Requests ==
    { <<"d", "i", "f", "f", "a">>,
      <<"d", "i", "f", "f", "b", "\n">>,
      <<"d", "i", "f", "f", "#">>,
      TestRequest,
      <<"x">> }

\* while (back == '\n' || back == '\r') request.pop_back()
TrimLineEnds(r) ==
    LET K == {k \in 1..Len(r) : r[k] \notin {"\n", "\r"}}
    IN  IF K = {} THEN <<>> ELSE SubSeq(r, 1, 0 - Least({0 - k : k \in K}))

\* request.find("diff") != npos || find("+++") != npos || find("---") != npos
IsDiffRequest(r) ==
    \/ Find(r, <<"d", "i", "f", "f">>) # npos
    \/ Find(r, <<"+", "+", "+">>) # npos
    \/ Find(r, <<"-", "-", "-">>) # npos

\* send_request writes the request into the request pipe, which the polling
\* server has open, and goes on to open the response pipe
ClientSend(r) ==
    /\ cli \in {"idle", "answered", "timeout"}
    /\ sent < MaxRequests
    /\ srv = "poll"
    /\ reqpipe = <<>>
    /\ reqpipe' = <<r>>
    /\ sent' = sent + 1
    /\ cli' = "open"
    /\ UNCHANGED <<srv, request, commit_msg, served, resppipe, answer>>
    /\ UNCHANGED <<model, ctx, vocab, ready, mtx, mem, loadpc, dpc, pc, diff,
                   tokens, sampler, result, cn, i, ret, how, lm, ncalls,
                   polled, raw, outs, early, frags, xvars>>

\* the server reads a request, trims it and chooses the reply; a diff is
\* passed to generate
ServerRead ==
    /\ srv = "poll"
    /\ reqpipe # <<>>
    /\ reqpipe' = <<>>
    /\ IF reqpipe[1] = <<>>
       THEN UNCHANGED <<srv, request, commit_msg, served>>
       ELSE LET r == TrimLineEnds(reqpipe[1])
            IN  /\ request' = r
                /\ IF r = TestRequest
                   THEN /\ commit_msg' = TestReply
                        /\ srv' = "respond"
                        /\ served' = served
                   ELSE IF IsDiffRequest(r)
                   THEN /\ commit_msg' = <<>>
                        /\ srv' = "generate"
                        /\ served' = served + 1
                   ELSE /\ commit_msg' = InvalidReply
                        /\ srv' = "respond"
                        /\ served' = served
    /\ UNCHANGED <<sent, resppipe, cli, answer>>
    /\ UNCHANGED <<model, ctx, vocab, ready, mtx, mem, loadpc, dpc, pc, diff,
                   tokens, sampler, result, cn, i, ret, how, lm, ncalls,
                   polled, raw, outs, early, frags, xvars>>

\* commit_msg = generator->generate(request) has returned
ServerReturn ==
    /\ srv = "generate"
    /\ ncalls = served
    /\ pc[1] = "ret"
    /\ commit_msg' = ret[1]
    /\ srv' = "respond"
    /\ UNCHANGED <<request, served, sent, reqpipe, resppipe, cli, answer>>
    /\ UNCHANGED <<model, ctx, vocab, ready, mtx, mem, loadpc, dpc, pc, diff,
                   tokens, sampler, result, cn, i, ret, how, lm, ncalls,
                   polled, raw, outs, early, frags, xvars>>

\* std::ofstream response_pipe(RESPONSE_PIPE); response_pipe << commit_msg;
\* response_pipe.close(): the open returns when the client reads the pipe
ServerRespond ==
    /\ srv = "respond"
    /\ cli = "open"
    /\ resppipe = <<>>
    /\ resppipe' = <<commit_msg>>
    /\ srv' = "poll"
    /\ UNCHANGED <<request, commit_msg, served, sent, reqpipe, cli, answer>>
    /\ UNCHANGED <<model, ctx, vocab, ready, mtx, mem, loadpc, dpc, pc, diff,
                   tokens, sampler, result, cn, i, ret, how, lm, ncalls,
                   polled, raw, outs, early, frags, xvars>>

\* the client reads the response pipe to its end: a non-empty response is
\* returned, an empty one is followed by the sleep
ClientRead ==
    /\ cli = "open"
    /\ resppipe # <<>>
    /\ resppipe' = <<>>
    /\ IF resppipe[1] # <<>>
       THEN /\ answer' = resppipe[1]
            /\ cli' = "answered"
       ELSE /\ answer' = answer
            /\ cli' = "retry"
    /\ UNCHANGED <<srv, request, commit_msg, served, sent, reqpipe>>
    /\ UNCHANGED <<model, ctx, vocab, ready, mtx, mem, loadpc, dpc, pc, diff,
                   tokens, sampler, result, cn, i, ret, how, lm, ncalls,
                   polled, raw, outs, early, frags, xvars>>

\* after the sleep the client tests the clock: within the 60 seconds it
\* opens the response pipe again, else it throws "Server timeout"
ClientRetry ==
    /\ cli = "retry"
    /\ \E expired \in BOOLEAN : cli' = IF expired THEN "timeout" ELSE "open"
    /\ UNCHANGED <<srv, request, commit_msg, served, sent, reqpipe, resppipe,
                   answer>>
    /\ UNCHANGED <<model, ctx, vocab, ready, mtx, mem, loadpc, dpc, pc, diff,
                   tokens, sampler, result, cn, i, ret, how, lm, ncalls,
                   polled, raw, outs, early, frags, xvars>>

-----------------------------------------------------------------------------
(* The server processes: main --start and start_server (src/README.md) *)

\* process q exists: kill(q, 0) == 0
Alive(q) == sp[q] \notin {"none", "rejected", "dead"}

\* the value of is_server_already_running(): the PID file names a live
\* process
is_server_already_running == pidfile # 0 /\ Alive(pidfile)

\* a start-up that does not wait for the model
PollDoneAlways(r) == TRUE

\* while (!generator->is_ready()) { sleep } : the loop ends when r is true
PollDone(r) == r

\* the files start_server creates
ServerFiles == {"fifos", "status", "pid"}

\* commitgen-server --start <model_path> is run as process p
StartCmd(p) ==
    /\ sp[p] = "none"
    /\ sp' = [sp EXCEPT ![p] = "check"]
    /\ UNCHANGED <<gtask, gready, gcalls, created, pidfile, fifos, statusfile>>
    /\ UNCHANGED <<model, ctx, vocab, ready, mtx, mem, loadpc, dpc, pc, diff,
                   tokens, sampler, result, cn, i, ret, how, lm, ncalls,
                   polled, raw, outs, early, frags, tvars, cvars>>

\* main: if (is_server_already_running()) { print_error(...); return 1; }
\* is_server_already_running unlinks a PID file whose process is dead
CheckRunning(p) ==
    /\ sp[p] = "check"
    /\ sp' = [sp EXCEPT ![p] = IF is_server_already_running
                                   THEN "rejected" ELSE "construct"]
    /\ pidfile' = IF is_server_already_running THEN pidfile ELSE 0
    /\ UNCHANGED <<gtask, gready, gcalls, created, fifos, statusfile>>
    /\ UNCHANGED <<model, ctx, vocab, ready, mtx, mem, loadpc, dpc, pc, diff,
                   tokens, sampler, result, cn, i, ret, how, lm, ncalls,
                   polled, raw, outs, early, frags, tvars, cvars>>

\* main installs the signal handlers; start_server:
\* generator = std::make_unique<CommitGen>(model_path), which starts the
\* load task
CreateGenerator(p) ==
    /\ sp[p] = "construct"
    /\ sp' = [sp EXCEPT ![p] = "wait_ready"]
    /\ gtask' = [gtask EXCEPT ![p] = "running"]
    /\ UNCHANGED <<gready, gcalls, created, pidfile, fifos, statusfile>>
    /\ UNCHANGED <<model, ctx, vocab, ready, mtx, mem, loadpc, dpc, pc, diff,
                   tokens, sampler, result, cn, i, ret, how, lm, ncalls,
                   polled, raw, outs, early, frags, tvars, cvars>>

\* the load task of the generator of p ends: ready is set when the model
\* file could be loaded, and is left false when it could not
GeneratorLoad(p) ==
    /\ Alive(p)
    /\ gtask[p] = "running"
    /\ \E loaded \in BOOLEAN : gready' = [gready EXCEPT ![p] = loaded]
    /\ gtask' = [gtask EXCEPT ![p] = "done"]
    /\ UNCHANGED <<sp, gcalls, created, pidfile, fifos, statusfile>>
    /\ UNCHANGED <<model, ctx, vocab, ready, mtx, mem, loadpc, dpc, pc, diff,
                   tokens, sampler, result, cn, i, ret, how, lm, ncalls,
                   polled, raw, outs, early, frags, tvars, cvars>>

\* while (!generator->is_ready()) { ...; sleep 100 ms } : a poll that finds
\* the flag false changes nothing
WaitReady(p) ==
    /\ sp[p] = "wait_ready"
    /\ PollDone(gready[p])
    /\ sp' = [sp EXCEPT ![p] = "mkfifo"]
    /\ UNCHANGED <<gtask, gready, gcalls, created, pidfile, fifos, statusfile>>
    /\ UNCHANGED <<model, ctx, vocab, ready, mtx, mem, loadpc, dpc, pc, diff,
                   tokens, sampler, result, cn, i, ret, how, lm, ncalls,
                   polled, raw, outs, early, frags, tvars, cvars>>

\* unlink and mkfifo of REQUEST_PIPE and RESPONSE_PIPE
CreatePipes(p) ==
    /\ sp[p] = "mkfifo"
    /\ fifos' = p
    /\ created' = [created EXCEPT ![p] = @ \cup {"fifos"}]
    /\ sp' = [sp EXCEPT ![p] = "status"]
    /\ UNCHANGED <<gtask, gready, gcalls, pidfile, statusfile>>
    /\ UNCHANGED <<model, ctx, vocab, ready, mtx, mem, loadpc, dpc, pc, diff,
                   tokens, sampler, result, cn, i, ret, how, lm, ncalls,
                   polled, raw, outs, early, frags, tvars, cvars>>

\* std::ofstream status(STATUS_FILE); status << "running"
WriteStatus(p) ==
    /\ sp[p] = "status"
    /\ statusfile' = p
    /\ created' = [created EXCEPT ![p] = @ \cup {"status"}]
    /\ sp' = [sp EXCEPT ![p] = "pidfile"]
    /\ UNCHANGED <<gtask, gready, gcalls, pidfile, fifos>>
    /\ UNCHANGED <<model, ctx, vocab, ready, mtx, mem, loadpc, dpc, pc, diff,
                   tokens, sampler, result, cn, i, ret, how, lm, ncalls,
                   polled, raw, outs, early, frags, tvars, cvars>>

\* write_pid_file(); the request loop begins
WritePidFile(p) ==
    /\ sp[p] = "pidfile"
    /\ pidfile' = p
    /\ created' = [created EXCEPT ![p] = @ \cup {"pid"}]
    /\ sp' = [sp EXCEPT ![p] = "serving"]
    /\ UNCHANGED <<gtask, gready, gcalls, fifos, statusfile>>
    /\ UNCHANGED <<model, ctx, vocab, ready, mtx, mem, loadpc, dpc, pc, diff,
                   tokens, sampler, result, cn, i, ret, how, lm, ncalls,
                   polled, raw, outs, early, frags, tvars, cvars>>

\* one turn of the request loop of p that reads a diff from the request pipe
\* and calls generator->generate(request)
Serve(p) ==
    /\ sp[p] = "serving"
    /\ fifos # 0
    /\ gcalls[p] < MaxRequests
    /\ gcalls' = [gcalls EXCEPT ![p] = @ + 1]
    /\ UNCHANGED <<sp, gtask, gready, created, pidfile, fifos, statusfile>>
    /\ UNCHANGED <<model, ctx, vocab, ready, mtx, mem, loadpc, dpc, pc, diff,
                   tokens, sampler, result, cn, i, ret, how, lm, ncalls,
                   polled, raw, outs, early, frags, tvars, cvars>>

\* signal_handler (SIGINT or SIGTERM, once main has installed it): unlinks
\* the four files, whoever made them, and calls exit(0)
SignalHandler(p) ==
    /\ sp[p] \in {"wait_ready", "mkfifo", "status", "pidfile", "serving"}
    /\ sp' = [sp EXCEPT ![p] = "dead"]
    /\ pidfile' = 0
    /\ fifos' = 0
    /\ statusfile' = 0
    /\ UNCHANGED <<gtask, gready, gcalls, created>>
    /\ UNCHANGED <<model, ctx, vocab, ready, mtx, mem, loadpc, dpc, pc, diff,
                   tokens, sampler, result, cn, i, ret, how, lm, ncalls,
                   polled, raw, outs, early, frags, tvars, cvars>>

\* process p ends without running its handler (SIGKILL, a crash): its files
\* stay
Crash(p) ==
    /\ Alive(p)
    /\ sp' = [sp EXCEPT ![p] = "dead"]
    /\ UNCHANGED <<gtask, gready, gcalls, created, pidfile, fifos, statusfile>>
    /\ UNCHANGED <<model, ctx, vocab, ready, mtx, mem, loadpc, dpc, pc, diff,
                   tokens, sampler, result, cn, i, ret, how, lm, ncalls,
                   polled, raw, outs, early, frags, tvars, cvars>>

-----------------------------------------------------------------------------
(* The client's each-file mode: main and interactive_commit (src/README.md) *)

\* result.file = "__QUIT__": the value by which interactive_commit tells
\* main that the user has quit
QuitMark == "__QUIT__"

\* names a changed file can have: get_changed_files returns the lines that
\* git prints, whatever they are
FileNames == {"a.c", "b.c", "__QUIT__"}

\* the lists of at most n distinct changed files
RECURSIVE FileLists(_)
FileLists(n) ==
    IF n = 0 THEN {<<>>}
    ELSE LET S == FileLists(n - 1)
         IN  S \cup {Append(l, f) : l \in S, f \in FileNames}

\* the lists get_changed_files can return in each-file mode once main has
\* found the list non-empty: git names a file once
ChangedFiles ==
    {l \in FileLists(NFiles) :
        /\ l # <<>>
        /\ \A j, k \in 1..Len(l) : j # k => l[j] # l[k]}

\* what send_request can return: a message, or a message with a trailing
\* newline
Messages == {<<"m">>, <<"m", "\n">>}

\* what the user can type at "Enter new commit message"
NewMessages == {<<>>, <<"n">>}

\* main, each-file mode: the changed files are known and the loop begins
InitClient ==
    /\ cpc = "loop"
    /\ fidx = 0
    /\ auto_accept \in BOOLEAN
    /\ cresult = [file |-> "", accepted |-> FALSE, committed |-> FALSE]
    /\ cmsg = <<>>
    /\ committed = 0
    /\ skipped = 0
    /\ results = <<>>
    /\ commits = <<>>
    /\ files \in ChangedFiles
    /\ outcomes = <<>>

\* for (size_t i = 0; i < files.size(); i++): the call of interactive_commit
\* for files[i] and the initialisation of its result, or the end of the loop
LoopTop ==
    /\ cpc = "loop"
    /\ IF fidx < Len(files)
          THEN /\ cresult' = [file |-> files[fidx + 1], accepted |-> FALSE,
                              committed |-> FALSE]
               /\ cpc' = "diff"
          ELSE /\ cpc' = "done"
               /\ UNCHANGED cresult
    /\ UNCHANGED <<fidx, auto_accept, cmsg, committed, skipped, results,
                   commits, files, outcomes>>
    /\ UNCHANGED <<model, ctx, vocab, ready, mtx, mem, loadpc, dpc, pc, diff,
                   tokens, sampler, result, cn, i, ret, how, lm, ncalls,
                   polled, raw, outs, early, frags, tvars, pvars>>

\* diff = get_git_diff(...); if (diff.empty()) { ...; return result; }
GetDiff ==
    /\ cpc = "diff"
    /\ \E empty \in BOOLEAN :
          IF empty
             THEN /\ cpc' = "returned"
                  /\ outcomes' = Append(outcomes, "empty")
             ELSE /\ cpc' = "request"
                  /\ UNCHANGED outcomes
    /\ UNCHANGED <<fidx, auto_accept, cresult, cmsg, committed, skipped,
                   results, commits, files>>
    /\ UNCHANGED <<model, ctx, vocab, ready, mtx, mem, loadpc, dpc, pc, diff,
                   tokens, sampler, result, cn, i, ret, how, lm, ncalls,
                   polled, raw, outs, early, frags, tvars, pvars>>

\* commit_msg = send_request(diff), the return on an exception, and the trim
\* of the message
SendRequest ==
    /\ cpc = "request"
    /\ \/ /\ cpc' = "returned"
          /\ outcomes' = Append(outcomes, "failed")
          /\ UNCHANGED cmsg
       \/ \E r \in Messages :
             /\ cmsg' = TrimRight(r)
             /\ cpc' = IF auto_accept THEN "auto" ELSE "prompt"
             /\ UNCHANGED outcomes
    /\ UNCHANGED <<fidx, auto_accept, cresult, committed, skipped, results,
                   commits, files>>
    /\ UNCHANGED <<model, ctx, vocab, ready, mtx, mem, loadpc, dpc, pc, diff,
                   tokens, sampler, result, cn, i, ret, how, lm, ncalls,
                   polled, raw, outs, early, frags, tvars, pvars>>

\* result.accepted = true; git add; git commit -m msg -- file;
\* result.committed = (ret == 0); the call returns with outcome o
RunCommit(msg, o) ==
    /\ commits' = Append(commits, <<cresult.file, msg>>)
    /\ \E ok \in BOOLEAN :
          cresult' = [cresult EXCEPT !.accepted = TRUE, !.committed = ok]
    /\ cmsg' = msg
    /\ outcomes' = Append(outcomes, o)
    /\ cpc' = "returned"

\* if (auto_accept) { ... return result; }
AutoAccept ==
    /\ cpc = "auto"
    /\ RunCommit(cmsg, "auto")
    /\ UNCHANGED <<fidx, auto_accept, committed, skipped, results, files>>
    /\ UNCHANGED <<model, ctx, vocab, ready, mtx, mem, loadpc, dpc, pc, diff,
                   tokens, sampler, result, cn, i, ret, how, lm, ncalls,
                   polled, raw, outs, early, frags, tvars, pvars>>

\* char choice = get_keypress() and its branch; a key other than y, e, n, q
\* prompts again and changes nothing
KeyPress ==
    /\ cpc = "prompt"
    /\ \/ RunCommit(cmsg, "y")
       \/ \E new_msg \in NewMessages :
             RunCommit(IF new_msg # <<>> THEN new_msg ELSE cmsg, "e")
       \/ /\ cpc' = "returned"
          /\ outcomes' = Append(outcomes, "n")
          /\ UNCHANGED <<cresult, cmsg, commits>>
       \/ /\ cresult' = [cresult EXCEPT !.file = QuitMark]
          /\ cpc' = "returned"
          /\ outcomes' = Append(outcomes, "q")
          /\ UNCHANGED <<cmsg, commits>>
    /\ UNCHANGED <<fidx, auto_accept, committed, skipped, results, files>>
    /\ UNCHANGED <<model, ctx, vocab, ready, mtx, mem, loadpc, dpc, pc, diff,
                   tokens, sampler, result, cn, i, ret, how, lm, ncalls,
                   polled, raw, outs, early, frags, tvars, pvars>>

\* main, after the call: if (result.file == "__QUIT__") break;
\* results.push_back(result); committed++ or skipped++; i++
AfterCall ==
    /\ cpc = "returned"
    /\ IF cresult.file = QuitMark
          THEN /\ cpc' = "done"
               /\ UNCHANGED <<fidx, committed, skipped, results>>
          ELSE /\ results' = Append(results, cresult)
               /\ committed' = IF cresult.committed THEN committed + 1 ELSE committed
               /\ skipped' = IF cresult.committed THEN skipped ELSE skipped + 1
               /\ fidx' = fidx + 1
               /\ cpc' = "loop"
    /\ UNCHANGED <<auto_accept, cresult, cmsg, commits, files, outcomes>>
    /\ UNCHANGED <<model, ctx, vocab, ready, mtx, mem, loadpc, dpc, pc, diff,
                   tokens, sampler, result, cn, i, ret, how, lm, ncalls,
                   polled, raw, outs, early, frags, tvars, pvars>>

-----------------------------------------------------------------------------
(* Specifications *)

Next ==
    \/ LoadModel
    \/ InitCtx
    \/ GetVocab
    \/ SetReady
    \/ IsReady
    \/ \E t \in Threads, d \in Diffs : Start(t, d, MaxCalls)
    \/ \E t \in Threads : Lock(t)
    \/ \E t \in Threads : Clear(t)
    \/ \E t \in Threads : Tokenize(t)
    \/ \E t \in Threads : DecodePrompt(t)
    \/ \E t \in Threads : InitSampler(t)
    \/ \E t \in Threads : LoopStep(t)
    \/ \E t \in Threads : Cleanup(t)
    \/ Destruct
    \/ DtorWait
    \/ FreeCtx
    \/ FreeModel

Spec == Init /\ [][Next]_vars

\* a ready session: the load task has succeeded
InitReady ==
    /\ model = "live"
    /\ ctx = "live"
    /\ vocab = "live"
    /\ ready = TRUE
    /\ loadpc = "done"
    /\ InitLocals
    /\ ServersOff
    /\ ClientOff

\* sequential calls of one thread on a ready session
InitSeq == InitReady /\ lm \in SeqLMs

NextSeq ==
    \/ \E d \in Diffs : Start(1, d, MaxSeqCalls)
    \/ Lock(1)
    \/ Clear(1)
    \/ Tokenize(1)
    \/ DecodePrompt(1)
    \/ InitSampler(1)
    \/ LoopStep(1)
    \/ Cleanup(1)

SpecSeq == InitSeq /\ [][NextSeq]_vars

\* one call on a ready session, for every token stream
InitGen == InitReady /\ lm \in RichLMs

NextGen ==
    \/ \E d \in Diffs : Start(1, d, 1)
    \/ Lock(1)
    \/ Clear(1)
    \/ Tokenize(1)
    \/ DecodePrompt(1)
    \/ InitSampler(1)
    \/ LoopStep(1)
    \/ Cleanup(1)

SpecGen == InitGen /\ [][NextGen]_vars

\* one call on a ready session, for every stream of plain text
InitText == InitReady /\ lm \in TextLMs

SpecText == InitText /\ [][NextGen]_vars

\* sequential calls of one thread on a ready session, with long diffs
InitPrompt == InitReady /\ lm = LM(<<>>, {}, "EOG", n_ctx)

NextPrompt ==
    \/ \E d \in PromptDiffs : Start(1, d, MaxCalls)
    \/ Lock(1)
    \/ Clear(1)
    \/ Tokenize(1)
    \/ DecodePrompt(1)
    \/ InitSampler(1)
    \/ LoopStep(1)
    \/ Cleanup(1)

SpecPrompt == InitPrompt /\ [][NextPrompt]_vars

\* a running server with a ready session, and one client
InitPipe == InitReady /\ lm \in PipeLMs

NextPipe ==
    \/ \E r \in Requests : ClientSend(r)
    \/ ServerRead
    \/ Start(1, request, served)
    \/ Lock(1)
    \/ Clear(1)
    \/ Tokenize(1)
    \/ DecodePrompt(1)
    \/ InitSampler(1)
    \/ LoopStep(1)
    \/ Cleanup(1)
    \/ ServerReturn
    \/ ServerRespond
    \/ ClientRead
    \/ ClientRetry

SpecPipe == InitPipe /\ [][NextPipe]_vars

\* one call on a ready session that nothing interrupts: the calling thread
\* keeps running, for streams that never end by themselves
InitBound == InitReady /\ lm \in BoundLMs

SpecBound == InitBound /\ [][NextGen]_vars /\ WF_vars(NextGen)

\* the --start commands of NServers server processes, in every interleaving
InitStart == InitReady /\ lm = LM(<<>>, {}, "EOG", n_ctx)

NextStart ==
    \/ \E p \in Servers : StartCmd(p)
    \/ \E p \in Servers : CheckRunning(p)
    \/ \E p \in Servers : CreateGenerator(p)
    \/ \E p \in Servers : GeneratorLoad(p)
    \/ \E p \in Servers : WaitReady(p)
    \/ \E p \in Servers : CreatePipes(p)
    \/ \E p \in Servers : WriteStatus(p)
    \/ \E p \in Servers : WritePidFile(p)
    \/ \E p \in Servers : Serve(p)
    \/ \E p \in Servers : SignalHandler(p)
    \/ \E p \in Servers : Crash(p)

SpecStart == InitStart /\ [][NextStart]_vars

\* the client in its each-file mode, for every list of changed files and
\* every choice of the user
InitEach ==
    /\ model = "live"
    /\ ctx = "live"
    /\ vocab = "live"
    /\ ready = TRUE
    /\ loadpc = "done"
    /\ lm = LM(<<>>, {}, "EOG", n_ctx)
    /\ InitLocals
    /\ ServersOff
    /\ InitClient

NextEach ==
    \/ LoopTop
    \/ GetDiff
    \/ SendRequest
    \/ AutoAccept
    \/ KeyPress
    \/ AfterCall

SpecEach == InitEach /\ [][NextEach]_vars

-----------------------------------------------------------------------------
(* Properties *)

\* thread t is between its context-clear step and its return
InFlight(t) == pc[t] \in {"clear", "tokenize", "decode", "sampler", "loop", "cleanup"}

\* thread t has taken the lock and has not returned
Holding(t) == InFlight(t) \/ pc[t] = "crash"

\* the stop marker occurs in s
HasStop(s) == \E p \in 0..Len(s) : OccursAt(s, stop_str, p)

\* the text of s before the first occurrence of the stop marker
BeforeStop(s) ==
    LET p == CHOOSE q \in 0..Len(s) :
                 /\ OccursAt(s, stop_str, q)
                 /\ \A r \in 0..(q - 1) : ~OccursAt(s, stop_str, r)
    IN  SubSeq(s, 1, p)

\* C1: at most one generate call is between its context-clear step and its
\* return at any time, for any number of calling threads.
C1_MutualExclusion ==
    \A t, u \in Threads : (t # u) => ~(InFlight(t) /\ InFlight(u))

\* a second caller waits for the lock while the first is in the decode loop
C1_Witness ==
    \E t, u \in Threads : t # u /\ pc[t] = "loop" /\ mem # <<>> /\ pc[u] = "lock"

\* C2: whenever the readiness flag is true, the model handle, the context
\* and the vocabulary handle are all non-null.
C2_ReadyImpliesInitialized ==
    ready => (model # "null" /\ ctx # "null" /\ vocab # "null")

\* C3: the readiness flag and the value is_ready() returns only ever change
\* from false to true.
C3_ReadyMonotonic ==
    [][(ready => ready') /\ (polled => polled')]_vars

\* is_ready() has returned true and generate calls have failed since
C3_Witness ==
    /\ polled
    /\ \E t \in Threads : pc[t] = "ret" /\ how[t] \in {"decfail", "tokfail", "midfail"}

\* C4: a generate call that observes readiness false returns the empty
\* string in that same step, and leaves the lock, the context memory, the
\* handles, the samplers and the load task as they were.
C4_NotReadyReturnsEmpty ==
    [][(ncalls' = ncalls + 1 /\ ~ready) =>
         /\ \E t \in Threads :
              /\ pc[t] \in {"idle", "ret"}
              /\ pc'[t] = "ret"
              /\ ret'[t] = <<>>
              /\ how'[t] = "notready"
              /\ \A u \in Threads \ {t} : pc'[u] = pc[u]
         /\ UNCHANGED <<mtx, mem, ctx, model, vocab, sampler, loadpc, ready>>]_vars

\* a call has returned empty while the load task was still running
C4_Witness ==
    \E t \in Threads :
        /\ pc[t] = "ret"
        /\ how[t] = "notready"
        /\ ret[t] = <<>>
        /\ loadpc \in {"init_ctx", "get_vocab", "set_ready"}
        /\ mtx = 0

\* C5: whenever a generate call is about to submit its prompt batch, the
\* sequence memory of the context is empty.
C5_CleanAtSubmit ==
    \A t \in Threads : pc[t] = "decode" => mem = <<>>

\* a call submits its prompt after an earlier call stopped on a failed
\* single-token decode
C5_Witness ==
    \E t, u \in Threads : pc[t] = "decode" /\ how[u] = "midfail" /\ ncalls = 2

\* C6: on a ready session all calls with the same diff return the same
\* string, whatever calls were made before and between them.
C6_SameDiffSameResult ==
    \A d \in Diffs : \A k \in 1..Len(outs[d]) : outs[d][k] = outs[d][1]

\* a diff was answered twice with a non-empty string and another diff was
\* answered too
C6_Witness ==
    \E d, e \in Diffs :
        /\ d # e
        /\ Len(outs[d]) >= 2
        /\ outs[d][1] # <<>>
        /\ Len(outs[e]) >= 1
        /\ outs[e][1] # <<>>

\* C7: the lock is held only by a thread that is inside generate past the
\* lock acquisition; after every return the lock is free.
C7_LockReleased ==
    /\ mtx \in {0} \cup Threads
    /\ \A t \in Threads : mtx = t => Holding(t)

\* a caller has taken the lock after another call returned on the
\* tokenization failure path
C7_Witness ==
    \E t, u \in Threads :
        /\ t # u
        /\ pc[u] = "ret"
        /\ how[u] = "tokfail"
        /\ pc[t] = "clear"
        /\ mtx = t

\* the model is null after the load step: loading the weights failed
LoadFailed == model = "null" /\ loadpc # "load_model"

\* C8: when loading the weights fails the load task is over, no context
\* exists, readiness is and stays false, and every generate call returns
\* on the not-ready path.
C8_LoadFailureNeverReady ==
    LoadFailed =>
        /\ loadpc = "done"
        /\ ctx = "null"
        /\ vocab = "null"
        /\ ~ready
        /\ ~polled
        /\ \A t \in Threads : pc[t] \in {"idle", "ret"} /\ how[t] \in {"none", "notready"}

\* after a failed load a call has returned empty and the session was
\* destroyed
C8_Witness ==
    /\ LoadFailed
    /\ dpc = "done"
    /\ \E t \in Threads : pc[t] = "ret" /\ how[t] = "notready"

\* C9: the destructor is past its wait, and a handle is released, only when
\* the load task has finished.
C9_ReleaseAfterLoad ==
    (dpc \in {"free_ctx", "free_model", "done"} \/ ctx = "freed" \/ model = "freed")
        => loadpc = "done"

\* destruction began during the load and has released context and model
C9_Witness ==
    early /\ dpc = "done" /\ ctx = "freed" /\ model = "freed"

\* C10: the loop never samples with the stop marker in the accumulated
\* text, and a call whose text contained the marker returns the
\* post-processed text before the marker's first occurrence.
C10_StopMarker ==
    \A t \in Threads :
        /\ pc[t] = "loop" => ~HasStop(raw[t])
        /\ (pc[t] = "cleanup" /\ HasStop(raw[t])) =>
               (how[t] = "stop" /\ result[t] = BeforeStop(raw[t]))
        /\ (pc[t] = "ret" /\ HasStop(raw[t])) =>
               /\ how[t] = "stop"
               /\ ret[t] = PostProcess(BeforeStop(raw[t]))
               /\ ~HasStop(ret[t])

\* the marker arrived split over two fragments, after the text "ok" and with
\* one more character behind it
C10_Witness ==
    \E t \in Threads :
        /\ pc[t] = "ret"
        /\ raw[t] = <<"o", "k">> \o stop_str \o <<"x">>
        /\ ret[t] = <<"o", "k">>

-----------------------------------------------------------------------------
(* The decode loop *)

NL == <<"\n">>

\* three consecutive newline-only pieces end at position k of the pieces fr
TripleAt(fr, k) == k >= 3 /\ fr[k - 2] = NL /\ fr[k - 1] = NL /\ fr[k] = NL

\* C11: three consecutive newline-only pieces stop the loop at the third
\* one: it is the last piece appended, no token is sampled after it, and
\* the call returns the cleaned-up text produced so far; the stream
\* "ok", newline, newline, newline, "ok" returns "ok".
C11_TripleNewlineStops ==
    \A t \in Threads :
        /\ \A k \in 1..Len(frags[t]) :
             TripleAt(frags[t], k) =>
                /\ k = Len(frags[t])
                /\ pc[t] \in {"cleanup", "ret"}
                /\ how[t] = "newlines"
                /\ pc[t] = "cleanup" => sampler[t] = k
                /\ pc[t] = "ret" => ret[t] = PostProcess(raw[t])
        /\ ( /\ lm.script = <<"OK", "NL", "NL", "NL", "OK">>
             /\ diff[t] = <<"a">>
             /\ pc[t] = "ret" )
           => ret[t] = <<"o", "k">>

C11_Witness ==
    /\ lm.script = <<"OK", "NL", "NL", "NL", "OK">>
    /\ pc[1] = "ret"
    /\ frags[1] = <<(<<"o", "k">>), NL, NL, NL>>
    /\ ret[1] = <<"o", "k">>

\* C12: in one call the sampler is sampled at most 512 times, whatever the
\* model emits (text for ever, tokens without text, no end of generation),
\* and a call that has entered the loop returns.
C12_SamplingBounded ==
    /\ [](\A t \in Threads : sampler[t] <= MaxIter /\ i[t] <= MaxIter)
    /\ \A t \in Threads : (pc[t] = "loop") ~> (pc[t] = "ret")

C12_Witness ==
    /\ pc[1] = "cleanup"
    /\ how[1] = "bound"
    /\ sampler[1] = MaxIter
    /\ Len(frags[1]) < MaxIter
    /\ result[1] # <<>>

-----------------------------------------------------------------------------
(* The prompt *)

\* the first n characters of d, or all of d when it is shorter
FirstChars(d, n) == [k \in 1..(IF Len(d) < n THEN Len(d) ELSE n) |-> d[k]]

\* C13: the prompt of generate(d) is the fixed header, the first 4000
\* characters of d and the fixed trailer; it equals the prompt of generate
\* called with those first 4000 characters, and a diff of at most 4000
\* characters is used unchanged.
C13_PromptTruncated ==
    \A t \in Threads :
        pc[t] = "decode" =>
            /\ tokens[t] = <<"H">> \o FirstChars(diff[t], MaxDiff) \o <<"T">>
            /\ tokens[t] = GenPrompt(FirstChars(diff[t], MaxDiff))
            /\ Len(diff[t]) <= MaxDiff => tokens[t] = <<"H">> \o diff[t] \o <<"T">>

C13_Witness ==
    /\ pc[1] = "decode"
    /\ Len(diff[1]) = MaxDiff + 1000
    /\ diff[1][MaxDiff + 1] = "b"
    /\ Len(tokens[1]) = MaxDiff + 2

-----------------------------------------------------------------------------
(* The clean-up of the result *)

\* v is what remains of r after at most one leading quote, then at most one
\* trailing quote, then all trailing newlines and spaces are removed
CleanedFrom(v, r) ==
    LET lead == IF r # <<>> /\ r[1] = "\"" THEN 1 ELSE 0
        a == SubSeq(r, lead + 1, Len(r))
        trail == IF a # <<>> /\ a[Len(a)] = "\"" THEN 1 ELSE 0
        b == SubSeq(a, 1, Len(a) - trail)
    IN  /\ Len(v) <= Len(b)
        /\ v = SubSeq(b, 1, Len(v))
        /\ \A k \in (Len(v) + 1)..Len(b) : b[k] \in {"\n", " "}
        /\ v # <<>> => v[Len(v)] \notin {"\n", " "}

\* C14: the returned text is the accumulated text without one leading
\* quote if there is one, then without one trailing quote if there is one,
\* then without its trailing newlines and spaces; a quote that precedes
\* trailing newlines stays, and "hello" in quotes becomes hello.
C14_PostProcessed ==
    /\ \A t \in Threads :
          (pc[t] = "ret" /\ how[t] \in {"eog", "newlines", "midfail", "bound"})
              => CleanedFrom(ret[t], raw[t])
    /\ PostProcess(<<"\"", "h", "e", "l", "l", "o", "\"">>) = <<"h", "e", "l", "l", "o">>

C14_Witness ==
    /\ pc[1] = "ret"
    /\ raw[1] = <<"\"", "o", "k", "\"", "\n">>
    /\ ret[1] = <<"o", "k", "\"">>

-----------------------------------------------------------------------------
(* Failures inside a call *)

\* thread t is about to tokenize a prompt that the tokenizer rejects
TokFails(t) ==
    pc[t] = "tokenize" /\ llama_tokenize(GenPrompt(diff[t])) < 0

\* C15: a failed tokenization returns the empty string, releases the lock,
\* creates no sampler and leaves the session as it was: readiness stays
\* true, and calls made after the failed call return what calls with the
\* same diff returned before it.
C15_TokenizeFailureLocal ==
    /\ [][\A t \in Threads :
            (TokFails(t) /\ pc'[t] # "tokenize") =>
                /\ pc'[t] = "ret"
                /\ ret'[t] = <<>>
                /\ mtx = t /\ mtx' = 0
                /\ sampler[t] = NoSampler /\ sampler'[t] = NoSampler
                /\ ready /\ ready'
                /\ UNCHANGED <<model, ctx, vocab, mem>>]_vars
    /\ [](\A d \in Diffs :
            outs[<<"#">>] # <<>> =>
                /\ \A k \in 1..Len(outs[<<"#">>]) : outs[<<"#">>][k] = <<>>
                /\ \A k \in 1..Len(outs[d]) : outs[d][k] = outs[d][1])

\* a call failed in tokenization, and a later call with a diff that was
\* answered before returned the same non-empty string
C15_Witness ==
    /\ pc[1] = "ret"
    /\ diff[1] = <<"a">>
    /\ ret[1] # <<>>
    /\ Len(outs[<<"#">>]) = 1
    /\ Len(outs[<<"a">>]) = 2
    /\ ready
    /\ mtx = 0

\* thread t is about to decode a prompt batch that the library rejects
DecFails(t) == pc[t] = "decode" /\ ~DecodeOk(mem, tokens[t])

\* the prompt of diff d cannot be decoded even in an empty memory
NeverDecodes(d) ==
    /\ llama_tokenize(GenPrompt(d)) >= 0
    /\ ~DecodeOk(<<>>, GenPrompt(d))

\* C16: a failed decode of the prompt batch returns the empty string
\* without creating a sampler or sampling, releases the lock and leaves
\* readiness true; the next call of the thread decodes its prompt into an
\* empty memory, and calls made after the failure return what calls with
\* the same diff returned before it.
C16_PromptDecodeFailureLocal ==
    /\ [][\A t \in Threads :
            (DecFails(t) /\ pc'[t] # "decode") =>
                /\ pc'[t] = "ret"
                /\ ret'[t] = <<>>
                /\ mtx = t /\ mtx' = 0
                /\ sampler[t] = NoSampler /\ sampler'[t] = NoSampler
                /\ ready /\ ready'
                /\ UNCHANGED <<model, ctx, vocab>>]_vars
    /\ [](\A t \in Threads :
            (pc[t] = "decode" /\ how[t] = "decfail") => mem = <<>>)
    /\ [](\A d, e \in Diffs :
            (NeverDecodes(e) /\ outs[e] # <<>>) =>
                /\ \A k \in 1..Len(outs[e]) : outs[e][k] = <<>>
                /\ \A k \in 1..Len(outs[d]) : outs[d][k] = outs[d][1])

\* a call failed in the prompt decode, and the next call, with a diff
\* answered before, returned the same text
C16_Witness ==
    /\ pc[1] = "ret"
    /\ diff[1] = <<"a">>
    /\ ret[1] # <<>>
    /\ NeverDecodes(<<"a", "b">>)
    /\ Len(outs[<<"a", "b">>]) = 1
    /\ Len(outs[<<"a">>]) = 2
    /\ ready
    /\ mtx = 0

\* C17: when the decode of one sampled token fails the loop stops and the
\* call returns the cleaned-up text of all pieces appended so far, the
\* piece of the token whose decode failed included: every piece but the
\* last one had its token decoded.
C17_PartialResultReturned ==
    \A t \in Threads :
        how[t] = "midfail" =>
            /\ frags[t] # <<>>
            /\ Len(mem) = Len(GenPrompt(diff[t])) + Len(frags[t]) - 1
            /\ SubSeq(raw[t], Len(raw[t]) - Len(frags[t][Len(frags[t])]) + 1, Len(raw[t]))
                  = frags[t][Len(frags[t])]
            /\ pc[t] = "cleanup" => result[t] = raw[t]
            /\ pc[t] = "ret" => CleanedFrom(ret[t], raw[t])

C17_Witness ==
    /\ pc[1] = "ret"
    /\ how[1] = "midfail"
    /\ Len(frags[1]) = 2
    /\ ret[1] = <<"o", "k", "o", "k">>

\* thread t is about to sample a token that has no text
BadDraw(t) ==
    /\ pc[t] = "loop"
    /\ i[t] < MaxIter
    /\ ~is_eog(llama_sampler_sample(mem, sampler[t]))
    /\ token_to_piece(llama_sampler_sample(mem, sampler[t])) < 0

\* the draws among the first n that gave a token without text
BadDraws(n) == Cardinality({k \in 0..(n - 1) : k \in lm.bad})

\* C18: an iteration whose token has no text leaves the result and the
\* newline counter as they were and the loop goes on with the next
\* iteration; every other sampled token that is not the end of generation
\* has its piece appended, also after such an iteration.
C18_FailedPieceSkipped ==
    /\ [][\A t \in Threads :
            (BadDraw(t) /\ sampler'[t] # sampler[t]) =>
                /\ pc'[t] = "loop"
                /\ result'[t] = result[t]
                /\ cn'[t] = cn[t]
                /\ frags'[t] = frags[t]
                /\ i'[t] = i[t] + 1]_vars
    /\ [](\A t \in Threads :
            pc[t] \in {"loop", "cleanup"} =>
                Len(frags[t]) = sampler[t] - BadDraws(sampler[t])
                                - (IF how[t] = "eog" THEN 1 ELSE 0))

\* a token without text was drawn between two tokens whose pieces are both
\* in the result
C18_Witness ==
    /\ pc[1] = "cleanup"
    /\ lm.bad = {1}
    /\ sampler[1] = 4
    /\ frags[1] = <<(<<"o", "k">>), (<<"\"">>)>>
    /\ result[1] = <<"o", "k", "\"">>

-----------------------------------------------------------------------------
(* The transport *)

\* the server has answered the client's last request with the result of
\* generate and the client has read the answer
DiffAnswered ==
    /\ sent > 0
    /\ IsDiffRequest(request)
    /\ ncalls = served
    /\ srv = "poll"
    /\ reqpipe = <<>>
    /\ resppipe = <<>>

\* C19: when generate returns the empty string on a ready session, the
\* client that sent the request has that outcome as the answer of
\* send_request once it has read the server's response: it is not left
\* waiting for a response or with a timeout.
C19_EmptyResultAnswered ==
    (ready /\ DiffAnswered /\ commit_msg = <<>>) => cli = "answered"

-----------------------------------------------------------------------------
(* Teardown *)

\* C20: the destructor releases the context only if it was created and
\* while the model is not yet released, releases the model only if it was
\* created and when no context is left, never releases a handle twice, and
\* leaves no handle unreleased, whether the load succeeded, failed, or was
\* still running when destruction began.
C20_TeardownOrder ==
    /\ [][ /\ (ctx' = "freed" /\ ctx # "freed") =>
                 (ctx = "live" /\ model = "live" /\ model' = "live")
           /\ (model' = "freed" /\ model # "freed") =>
                 (model = "live" /\ ctx # "live" /\ ctx' # "live")
           /\ ctx = "freed" => ctx' = "freed"
           /\ model = "freed" => model' = "freed" ]_vars
    /\ [](dpc = "free_ctx" => (ctx # "freed" /\ model # "freed"))
    /\ [](dpc = "free_model" => (ctx # "live" /\ model # "freed"))
    /\ [](dpc = "done" => (ctx # "live" /\ model # "live"))

\* the context is released and the model is not yet
C20_Witness ==
    /\ dpc = "free_model"
    /\ ctx = "freed"
    /\ model = "live"

-----------------------------------------------------------------------------
(* The context during the loop *)

\* C21: at each sampling step the memory of the context holds the prompt
\* followed by one token for every draw made so far in this call: every
\* sampled token that did not end the loop was decoded, a token without
\* text included.
C21_EverySampledTokenDecoded ==
    \A t \in Threads :
        pc[t] = "loop" =>
            /\ SubSeq(mem, 1, Len(tokens[t])) = tokens[t]
            /\ Len(mem) = Len(tokens[t]) + sampler[t]

\* C22: a call leaves the loop by the newline heuristic only when the three
\* pieces appended last are each exactly a newline; newlines separated by
\* another piece do not add up.
C22_StopOnlyOnThreeInARow ==
    \A t \in Threads :
        (pc[t] = "cleanup" /\ how[t] = "newlines")
            => TripleAt(frags[t], Len(frags[t]))

\* thread t is about to sample the end-of-generation token
EogDraw(t) ==
    /\ pc[t] = "loop"
    /\ i[t] < MaxIter
    /\ llama_sampler_sample(mem, sampler[t]) = "EOG"

\* C23: when the sampled token is an end-of-generation token the loop is
\* left in that iteration: nothing is appended to the result, the token is
\* not decoded into the memory, and the call returns the cleaned-up text
\* accumulated before.
C23_EogStopsAtOnce ==
    /\ [][\A t \in Threads :
            (EogDraw(t) /\ sampler'[t] # sampler[t]) =>
                /\ pc'[t] = "cleanup"
                /\ how'[t] = "eog"
                /\ result'[t] = result[t]
                /\ frags'[t] = frags[t]
                /\ mem' = mem]_vars
    /\ [](\A t \in Threads :
            (pc[t] = "ret" /\ how[t] = "eog") =>
                /\ ret[t] = PostProcess(raw[t])
                /\ Find(raw[t], Piece("EOG")) = npos
                /\ Len(mem) = Len(GenPrompt(diff[t])) + Len(frags[t]))

C23_Witness ==
    /\ pc[1] = "ret"
    /\ how[1] = "eog"
    /\ frags[1] = <<(<<"o", "k">>), (<<"o", "k">>)>>
    /\ ret[1] = <<"o", "k", "o", "k">>
    /\ Len(mem) = Len(GenPrompt(diff[1])) + 2

-----------------------------------------------------------------------------
(* Resources of a call *)

\* C24: a sampler exists only inside a call that has reached sampling and
\* has not returned; it is created once, by that call, and is gone when the
\* call returns, however the loop was left; a call that returns before
\* sampling never has one.
C24_SamplerPerCall ==
    /\ [](\A t \in Threads :
            sampler[t] # NoSampler <=> pc[t] \in {"loop", "cleanup"})
    /\ [][\A t \in Threads :
            /\ (sampler[t] = NoSampler /\ sampler'[t] # NoSampler) =>
                  (pc[t] = "sampler" /\ pc'[t] = "loop" /\ sampler'[t] = 0)
            /\ (pc[t] # "ret" /\ pc'[t] = "ret") => sampler'[t] = NoSampler
            /\ (pc[t] \notin {"cleanup", "ret"} /\ pc'[t] = "ret") =>
                  sampler[t] = NoSampler]_vars

\* two calls have returned, one after sampling and one before, and no
\* sampler is left
C24_Witness ==
    /\ pc[1] = "ret"
    /\ pc[2] = "ret"
    /\ how[1] = "midfail"
    /\ how[2] = "tokfail"
    /\ \A t \in Threads : sampler[t] = NoSampler

\* a step of generate: a thread moves, or goes round the loop
GenerateStep ==
    /\ dpc' = dpc
    /\ loadpc' = loadpc
    /\ \E t \in Threads : pc'[t] # pc[t] \/ i'[t] # i[t] \/ sampler'[t] # sampler[t]

\* C25: no step of generate changes the model handle, the vocabulary
\* handle, the context handle or the readiness flag, on any exit path; a
\* call changes the memory of the context only.
C25_GenerateFrame ==
    [][GenerateStep => UNCHANGED <<model, ctx, vocab, ready>>]_vars

\* a call has returned text and has left its tokens in the memory, and
\* another thread has entered generate
C25_Witness ==
    /\ dpc = "none"
    /\ ready
    /\ model = "live" /\ ctx = "live" /\ vocab = "live"
    /\ pc[1] = "ret"
    /\ how[1] = "stop"
    /\ Len(mem) > Len(GenPrompt(diff[1]))
    /\ pc[2] = "lock"

\* C26: the context and the model are never released while a call of
\* generate is in flight and holds the lock, also when the process is torn
\* down during a generation.
C26_NoReleaseWhileLocked ==
    \A t \in Threads :
        (InFlight(t) /\ mtx = t) => (ctx # "freed" /\ model # "freed")

\* C27: a server process creates the pipes, the status file and the PID file
\* and makes a generate call only once is_ready() has returned true to it;
\* a process whose model load has failed stays in its wait loop (or has
\* ended), has created no file and has made no generate call.
C27_ServesOnlyWhenReady ==
    \A p \in Servers :
        /\ (sp[p] \in {"mkfifo", "status", "pidfile", "serving"}
              \/ created[p] # {} \/ gcalls[p] > 0) => gready[p]
        /\ (gtask[p] = "done" /\ ~gready[p]) =>
              /\ sp[p] \in {"wait_ready", "dead"}
              /\ created[p] = {}
              /\ gcalls[p] = 0

C27_Witness ==
    /\ sp[1] = "serving" /\ gready[1] /\ gcalls[1] > 0
    /\ created[1] = ServerFiles
    /\ sp[2] = "wait_ready" /\ gtask[2] = "done" /\ ~gready[2]

\* a server process that has passed the check of --start and has not ended:
\* it loads its model, creates the pipes or serves
Started(p) == sp[p] \in {"wait_ready", "mkfifo", "status", "pidfile", "serving"}

\* C28: at most one server process is started and serving at a time, in
\* every interleaving of the --start commands: a --start issued while
\* another server process is alive loads no model and creates no pipes.
C28_AtMostOneServer ==
    Cardinality({p \in Servers : Started(p)}) <= 1

\* the text s ends with a newline or a space
EndsBlank(s) == s # <<>> /\ s[Len(s)] \in {"\n", " "}

CountIn(q, S) == Cardinality({k \in 1..Len(q) : q[k] \in S})

\* a commit command has run exactly for the calls that ended
\* by y, by e or by auto-accept; n, q, an empty diff and a failed request
\* run none.
CommitsOnlyAccepted == Len(commits) = CountIn(outcomes, {"y", "e", "auto"})

\* after a quit no later file is processed
QuitIsLast == \A k \in 1..(Len(outcomes) - 1) : outcomes[k] # "q"

\* C30: in each-file mode a commit runs only for an accepted file, a quit
\* ends the loop, and between two files committed + skipped is the number
\* of files processed that the user did not quit on.
C30_EachFileAccounting ==
    /\ CommitsOnlyAccepted
    /\ QuitIsLast
    /\ (cpc \in {"loop", "done"}) =>
           committed + skipped = CountIn(outcomes, {"y", "e", "auto", "n", "empty", "failed"})

====
